---- MODULE Spec2Model ----
(***************************************************************************)
(* The long-to-wide panel construction of the CRSP monthly pipeline:       *)
(* make_crsp_monthly_data joins the monthly stock file to the membership   *)
(* table, filters the result, persists the two axes and the link file and  *)
(* pivots every variable into a matrix persisted as JSON.                  *)
(* make_crsp_derived_variables reads the axes and a matrix back and        *)
(* filters the delisting events; get_wrds_table downloads one table.       *)
(***************************************************************************)
EXTENDS Integers, Sequences, FiniteSets, TLC

\* Longest monthly stock file of the pivot scenarios.
MaxObs == 2
\* Longest monthly stock file of the assembly scenarios.
MaxPanelObs == 1
\* Largest membership table of the assembly scenarios.
MaxMemb == 2
\* Most delisting events of crsp_msedelist.parquet besides the sentinel row.
MaxDelist == 2
\* Most rows and most columns of an array written and read back.
MaxDim == 2
\* Most rows the database returns for a query.
MaxRows == 2

(***************************************************************************)
(* Values.  A polars cell is either null or holds a value: Null is the     *)
(* empty tuple and a present value v is the one-element tuple <<v>>.       *)
(* A chrono::NaiveDate is the tuple <<year, month, day>>.                  *)
(***************************************************************************)
Null == <<>>

Some(v) == <<v>>

DateLt(a, b) ==
    \/ a[1] < b[1]
    \/ a[1] = b[1] /\ a[2] < b[2]
    \/ a[1] = b[1] /\ a[2] = b[2] /\ a[3] < b[3]

\* polars comparison and boolean expressions are three-valued: a null
\* operand gives null, and filter keeps a row only when the predicate is true.
Gt(a, b) == IF a = Null \/ b = Null THEN "null"
            ELSE IF DateLt(b, a) THEN "true" ELSE "false"

Lt(a, b) == IF a = Null \/ b = Null THEN "null"
            ELSE IF DateLt(a, b) THEN "true" ELSE "false"

GtEq(a, b) == IF a = Null \/ b = Null THEN "null"
              ELSE IF DateLt(a, b) THEN "false" ELSE "true"

LtEq(a, b) == IF a = Null \/ b = Null THEN "null"
              ELSE IF DateLt(b, a) THEN "false" ELSE "true"

EqLit(a, n) == IF a = Null THEN "null"
               ELSE IF a[1] = n THEN "true" ELSE "false"

And3(x, y) == IF x = "false" \/ y = "false" THEN "false"
              ELSE IF x = "null" \/ y = "null" THEN "null" ELSE "true"

Or3(x, y) == IF x = "true" \/ y = "true" THEN "true"
             ELSE IF x = "null" \/ y = "null" THEN "null" ELSE "false"

(***************************************************************************)
(* Sequence helpers.                                                       *)
(***************************************************************************)
Range(s) == {s[i] : i \in 1..Len(s)}

SeqsUpTo(S, n) == UNION {[1..k -> S] : k \in 0..n}

RECURSIVE Flatten(_)
Flatten(ss) == IF ss = <<>> THEN <<>> ELSE Head(ss) \o Flatten(Tail(ss))

\* Every value, duplicates included.
not_unique(s) == s

\* Expr::unique_stable: the distinct values in order of first appearance.
RECURSIVE unique_stable(_)
unique_stable(s) ==
    IF s = <<>> THEN <<>>
    ELSE LET init == unique_stable(SubSeq(s, 1, Len(s) - 1))
             last == s[Len(s)]
         IN  IF last \in Range(init) THEN init ELSE Append(init, last)

(***************************************************************************)
(* Dates as text and as integers: dt().to_string("%Y%m") writes the year   *)
(* and the zero-padded month as decimal digits, and cast(Int32) parses the *)
(* digits back into a number.                                              *)
(***************************************************************************)
Digits(n, width) ==
    [i \in 1..width |-> (n \div (10 ^ (width - i))) % 10]

\* dt().to_string("%Y%m%d"): the day is kept.
to_string_Ymd(d) == Digits(d[1], 4) \o Digits(d[2], 2) \o Digits(d[3], 2)

to_string_Ym(d) == Digits(d[1], 4) \o Digits(d[2], 2)

RECURSIVE cast_Int32(_)
cast_Int32(str) ==
    IF str = <<>> THEN 0
    ELSE 10 * cast_Int32(SubSeq(str, 1, Len(str) - 1)) + str[Len(str)]

(***************************************************************************)
(* Array2<T>: the shape and the cells in row-major order.  nan is the set  *)
(* of positions whose cell is a float that is not finite (NaN or an        *)
(* infinity); data holds 0 there.  DataFrame::to_ndarray gives one array   *)
(* row per frame row, every cell finite.                                   *)
(***************************************************************************)
Array2(nrows, ncols, cells) == [dim |-> <<nrows, ncols>>, data |-> cells, nan |-> {}]

column_to_ndarray(column) == Array2(Len(column), 1, column)

(***************************************************************************)
(* JSON.  ndarray writes an array as {"v":1,"dim":[r,c],"data":[...]}.     *)
(* serde_json writes a finite number as a number and a float that is not   *)
(* finite as the token null; reading a number of type T from the token     *)
(* null is an error, and so are a version other than 1 and a data list     *)
(* whose length is not r * c.  In a document, null is the set of positions *)
(* of data that hold the token null (data holds 0 there).                  *)
(***************************************************************************)
\* serde_json::to_string(&ndarray)
to_string(ndarray) ==
    [v |-> 1,
     dim |-> ndarray.dim,
     data |-> [i \in 1..Len(ndarray.data) |->
                  IF i \in ndarray.nan THEN 0 ELSE ndarray.data[i]],
     null |-> ndarray.nan]

NoArray == [dim |-> <<0, 0>>, data |-> <<>>, nan |-> {}]

\* serde_json::from_str::<Array2<T>>(&json)
from_str(json) ==
    IF json.v # 1 \/ json.null # {} \/ Len(json.data) # json.dim[1] * json.dim[2]
    THEN [ok |-> FALSE, array |-> NoArray]
    ELSE [ok |-> TRUE, array |-> [dim |-> json.dim, data |-> json.data, nan |-> {}]]

NoFile == [v |-> 0, dim |-> <<>>, data |-> <<>>, null |-> {}]

(***************************************************************************)
(* The program's constants.                                                *)
(***************************************************************************)
var_names ==
    << "shrcd", "exchcd", "siccd", "prc", "bid", "ask", "bidlo", "askhi",
       "vol_x_adj", "ret_x_dl", "shrout", "cfacpr", "cfacshr", "spread", "retx" >>

VarSet == Range(var_names)

\* The measured columns of crsp_msf.parquet that the pipeline reads.
MsfCols ==
    { "prc", "bid", "ask", "bidlo", "askhi", "vol", "ret", "shrout",
      "cfacpr", "cfacshr", "spread", "retx" }

\* rename(["ret", "vol"], ["ret_x_dl", "vol_x_adj"])
NewName(c) == IF c = "ret" THEN "ret_x_dl"
              ELSE IF c = "vol" THEN "vol_x_adj" ELSE c

OldName(c) == IF c = "ret_x_dl" THEN "ret"
              ELSE IF c = "vol_x_adj" THEN "vol" ELSE c

RenamedCols == {NewName(c) : c \in MsfCols}

rename(df) ==
    [i \in 1..Len(df) |->
        [df[i] EXCEPT !.cols = [c \in RenamedCols |-> df[i].cols[OldName(c)]]]]

MembCols == {"shrcd", "exchcd", "siccd"}

SupportedTypes == {"Int16", "Int32", "Int64", "Float32", "Float64"}

\* A file name that does not depend on the variable.
file_name_fixed(var_name) == "matrix.json"

\* format!("{}.json", var_name)
file_name(var_name) == var_name \o ".json"

AxisFiles == {"permno.json", "dates.json"}

FileNames == AxisFiles \cup {"crsp_link.json"} \cup {file_name(v) : v \in VarSet}

(***************************************************************************)
(* Frames.  A row of crsp_msf.parquet is [permno, date, cols], cols giving *)
(* each measured column's cell; a row of crsp_mseexchdates.parquet is      *)
(* [permno, namedt, nameendt, memb], memb giving shrcd, exchcd and siccd.  *)
(* A row of the joined frame carries the columns of both.                  *)
(***************************************************************************)
JoinRow(l, r) ==
    [permno |-> l.permno, date |-> l.date, cols |-> l.cols,
     namedt |-> r.namedt, nameendt |-> r.nameendt, memb |-> r.memb]

\* The right-hand columns of a left row that matches no right row.
NullRight ==
    [namedt |-> Null, nameendt |-> Null, memb |-> [c \in MembCols |-> Null]]

\* join(.., [col("permno")], [col("permno")], JoinType::Left): every left row,
\* in order, once per matching right row, or once with null right columns.
RECURSIVE left_join(_, _)
left_join(left, right) ==
    IF left = <<>> THEN <<>>
    ELSE LET l == Head(left)
             matches == SelectSeq(right, LAMBDA r : r.permno = l.permno)
             rows == IF matches = <<>> THEN <<JoinRow(l, NullRight)>>
                     ELSE [i \in 1..Len(matches) |-> JoinRow(l, matches[i])]
         IN  rows \o left_join(Tail(left), right)

\* A window filter that keeps the two ends of the window.
window_predicate_closed(row) ==
    And3(GtEq(row.date, row.namedt), LtEq(row.date, row.nameendt))

\* col("date").gt(col("namedt")).and(col("date").lt(col("nameendt")))
window_predicate(row) ==
    And3(Gt(row.date, row.namedt), Lt(row.date, row.nameendt))

\* A sample filter that drops the two ends of the sample.
sample_predicate_open(row, p) ==
    And3(Gt(row.date, p.sample_start), Lt(row.date, p.sample_end))

\* col("date").gt_eq(lit(sample_start)).and(col("date").lt_eq(lit(sample_end)))
sample_predicate(row, p) ==
    And3(GtEq(row.date, p.sample_start), LtEq(row.date, p.sample_end))

\* A share-code filter written with 20 in the place of 11.
shrcd_predicate_10_20(row) ==
    Or3(EqLit(row.memb["shrcd"], 10), EqLit(row.memb["shrcd"], 20))

\* col("shrcd").eq(lit(10)).or(col("shrcd").eq(lit(11)))
shrcd_predicate(row) ==
    Or3(EqLit(row.memb["shrcd"], 10), EqLit(row.memb["shrcd"], 11))

\* A window filter that keeps the rows whose predicate is null.
filter_window_keep_null(df) == SelectSeq(df, LAMBDA row : window_predicate(row) # "false")

filter_window(df) == SelectSeq(df, LAMBDA row : window_predicate(row) = "true")

filter_sample(df, p) == SelectSeq(df, LAMBDA row : sample_predicate(row, p) = "true")

filter_shrcd(df) == SelectSeq(df, LAMBDA row : shrcd_predicate(row) = "true")

\* The join, the two filters and the optional share-code filter.
assemble(left, right, p) ==
    LET joined == filter_sample(filter_window(left_join(left, right)), p)
    IN  IF p.dom_com_eq_flag THEN filter_shrcd(joined) ELSE joined

(***************************************************************************)
(* Persistence.  The directory is the content of each file (NoFile when it *)
(* does not exist) and the log of the writes in the order they happened.   *)
(***************************************************************************)
EmptyDir == [content |-> [f \in FileNames |-> NoFile], log |-> <<>>]

\* File::create(dir.join(filename)) and write_all of the serialised array.
save_ndarray_as_json(fs, ndarray, filename) ==
    [content |-> [fs.content EXCEPT ![filename] = to_string(ndarray)],
     log |-> Append(fs.log, filename)]

\* File::open, read_to_string and serde_json::from_str: an error when the
\* file does not exist or does not hold an Array2<T>.
load_array(fs, filename) ==
    IF fs.content[filename] = NoFile THEN [ok |-> FALSE, array |-> NoArray]
    ELSE from_str(fs.content[filename])

Column(df, f(_)) == [i \in 1..Len(df) |-> f(df[i])]

\* select([col("permno").unique_stable()]) as an Int32 array.
save_unique_column(fs, df) ==
    save_ndarray_as_json(
        fs,
        column_to_ndarray(unique_stable(Column(df, LAMBDA row : row.permno))),
        "permno.json")

\* select([col("date").dt().to_string("%Y%m").unique_stable()]), then the
\* cast of the strings to Int32.
save_unique_dates(fs, df) ==
    LET dates_col == unique_stable(Column(df, LAMBDA row : to_string_Ym(row.date)))
        dates == [i \in 1..Len(dates_col) |-> cast_Int32(dates_col[i])]
    IN  save_ndarray_as_json(fs, column_to_ndarray(dates), "dates.json")

\* select([col("permno"), col("date") as %Y%m Int32]) as an (n, 2) array.
save_link_file(fs, df) ==
    LET link == [i \in 1..Len(df) |->
                    <<df[i].permno, cast_Int32(to_string_Ym(df[i].date))>>]
    IN  save_ndarray_as_json(fs, Array2(Len(df), 2, Flatten(link)), "crsp_link.json")

(***************************************************************************)
(* The pivot.  temp_df is the projection (permno, date, var_name); the     *)
(* pivot is on permno with date as the index, so the pivoted frame has one *)
(* row per distinct date and one value column per distinct permno, both in *)
(* order of first appearance (sort_columns is false).                      *)
(***************************************************************************)
\* The cell of a renamed joined row under a variable's name.
cell(row, var_name) ==
    IF var_name \in MembCols THEN row.memb[var_name] ELSE row.cols[var_name]

\* select([col("permno"), col("date"), col(var_name)])
select_temp_df(df, var_name) ==
    [i \in 1..Len(df) |->
        [permno |-> df[i].permno, date |-> df[i].date, value |-> cell(df[i], var_name)]]

\* pivot(&temp_df, ["permno"], Some(["date"]), Some([var_name]), false, None, None):
\* with no aggregate function, two rows in one (date, permno) group are an error.
pivot(temp_df) ==
    LET index == unique_stable(Column(temp_df, LAMBDA r : r.date))
        headers == unique_stable(Column(temp_df, LAMBDA r : r.permno))
        groups == unique_stable(Column(temp_df, LAMBDA r : <<r.date, r.permno>>))
        at(d, p) == {i \in 1..Len(temp_df) : temp_df[i].date = d /\ temp_df[i].permno = p}
    IN  IF Len(temp_df) > Len(groups)
        THEN [ok |-> FALSE, index |-> <<>>, headers |-> <<>>, cells |-> <<>>]
        ELSE [ok |-> TRUE, index |-> index, headers |-> headers,
              cells |-> [r \in 1..Len(index) |-> [c \in 1..Len(headers) |->
                           IF at(index[r], headers[c]) = {} THEN Null
                           ELSE temp_df[CHOOSE i \in at(index[r], headers[c]) : TRUE].value]]]

\* FillNullStrategy::MinBound on one cell of an Int16 column.
fill_null_min_bound(c) == IF c = Null THEN Some(-(2 ^ 15)) ELSE c

\* FillNullStrategy::One on one cell.
fill_null_one(c) == IF c = Null THEN Some(1) ELSE c

\* FillNullStrategy::Zero on one cell.
fill_null(c) == IF c = Null THEN Some(0) ELSE c

\* fill_null over the pivoted frame, drop_in_place("date"), and to_ndarray of
\* what is left: one array row per date, one array column per permno.
pivoted_to_ndarray(pv) ==
    Array2(Len(pv.index), Len(pv.headers),
           Flatten([r \in 1..Len(pv.index) |->
                      [c \in 1..Len(pv.headers) |-> fill_null(pv.cells[r][c])[1]]]))

\* process_variable: Ok with the matrix written, or Err with nothing written.
\* pivot_empty_fails is the library's answer to a pivot of a frame with no rows.
process_variable(fs, df, var_name, dtype, pivot_empty_fails) ==
    LET pv == pivot(select_temp_df(df, var_name))
    IN  IF ~pv.ok \/ (df = <<>> /\ pivot_empty_fails)
        THEN [ok |-> FALSE, fs |-> fs, err |-> "pivot"]
        ELSE IF dtype \notin SupportedTypes
        THEN [ok |-> FALSE, fs |-> fs, err |-> "Unsupported data type"]
        ELSE [ok |-> TRUE,
              fs |-> save_ndarray_as_json(fs, pivoted_to_ndarray(pv), file_name(var_name)),
              err |-> ""]

\* for (i, var_name) in var_names.iter().enumerate() { process_variable(..)?; }
RECURSIVE for_var_names(_, _, _, _, _)
for_var_names(i, fs, df, sch, pivot_empty_fails) ==
    IF i > Len(var_names) THEN [ok |-> TRUE, fs |-> fs, err |-> "", at |-> ""]
    ELSE LET r == process_variable(fs, df, var_names[i], sch[var_names[i]],
                                   pivot_empty_fails)
         IN  IF r.ok THEN for_var_names(i + 1, r.fs, df, sch, pivot_empty_fails)
             ELSE [ok |-> FALSE, fs |-> r.fs, err |-> r.err, at |-> var_names[i]]

InputFiles == {"crsp_msf.parquet", "crsp_mseexchdates.parquet"}

\* What can fail before the loop over the variables: reading either parquet
\* file, the collect of the join and the filters, and each write of an axis
\* or of the link file.
Faults == {"none", "collect", "crsp_link.json"} \cup InputFiles \cup AxisFiles

\* A run that goes on to the variables whatever step failed before them.
run_monthly_unchecked(left, right, p, sch, fs, pivot_empty_fails, fault) ==
    LET result == assemble(left, right, p)
        out == for_var_names(1, fs, rename(result), sch, pivot_empty_fails)
    IN  [result |-> result, ok |-> out.ok, fs |-> out.fs, err |-> out.err, at |-> out.at]

\* A run that pivots the variables first and persists the axes last.
run_monthly_axes_last(left, right, p, sch, fs, pivot_empty_fails, fault) ==
    LET result == assemble(left, right, p)
        out == for_var_names(1, fs, rename(result), sch, pivot_empty_fails)
    IN  [result |-> result, ok |-> out.ok,
         fs |-> save_link_file(save_unique_dates(save_unique_column(out.fs, result),
                                                 result), result),
         err |-> out.err, at |-> out.at]

\* make_crsp_monthly_data: every step that fails returns its error at once.
run_monthly(left, right, p, sch, fs, pivot_empty_fails, fault) ==
    IF fault \in InputFiles
    THEN [result |-> <<>>, ok |-> FALSE, fs |-> fs,
          err |-> "Failed to load parquet file", at |-> fault]
    ELSE IF fault = "collect"
    THEN [result |-> <<>>, ok |-> FALSE, fs |-> fs,
          err |-> "Failed to join and filter the CRSP data.", at |-> fault]
    ELSE
    LET result == assemble(left, right, p)
        fs1 == save_unique_column(fs, result)
        fs2 == save_unique_dates(fs1, result)
        fs3 == save_link_file(fs2, result)
        failed(dir) == [result |-> result, ok |-> FALSE, fs |-> dir,
                        err |-> "Failed to write ndarray to file", at |-> fault]
        out == for_var_names(1, fs3, rename(result), sch, pivot_empty_fails)
    IN  IF fault = "permno.json" THEN failed(fs)
        ELSE IF fault = "dates.json" THEN failed(fs1)
        ELSE IF fault = "crsp_link.json" THEN failed(fs2)
        ELSE [result |-> result, ok |-> out.ok, fs |-> out.fs,
              err |-> out.err, at |-> out.at]

(***************************************************************************)
(* make_crsp_derived_variables.  A row of crsp_msedelist.parquet is        *)
(* [permno, dlstdt]; the filtered frame adds date, the month of dlstdt as  *)
(* the integer YYYYMM.                                                     *)
(***************************************************************************)
\* col("dlstdt").max()
DateMax(column) ==
    CHOOSE d \in Range(column) : \A e \in Range(column) : ~DateLt(d, e)

\* date.iter().cloned().max()
IntMax(values) ==
    CHOOSE x \in Range(values) : \A y \in Range(values) : y <= x

\* filter_delisting_data: permno is_in the entity axis and dlstdt is not the
\* largest dlstdt of the table, then date < the largest entry of the period
\* axis.  max() of an empty axis is None, and unwrap() of None panics.
filter_delisting_data(crsp_msedelist, permno, date) ==
    IF date.data = <<>> THEN [pc |-> "Panic", kept |-> <<>>]
    ELSE
    LET dlstdt == [i \in 1..Len(crsp_msedelist) |-> crsp_msedelist[i].dlstdt]
        first == SelectSeq(crsp_msedelist,
                           LAMBDA r : /\ r.permno \in Range(permno.data)
                                      /\ r.dlstdt # DateMax(dlstdt))
        dated == [i \in 1..Len(first) |->
                    [permno |-> first[i].permno, dlstdt |-> first[i].dlstdt,
                     date |-> cast_Int32(to_string_Ym(first[i].dlstdt))]]
    IN  [pc |-> "Ok",
         kept |-> SelectSeq(dated, LAMBDA r : r.date < IntMax(date.data))]

\* make_crsp_derived_variables: the three arrays are read back, the delisting
\* events filtered and printed; nothing is written.
make_crsp_derived_variables(fs, crsp_msedelist) ==
    LET ret_x_dl == load_array(fs, "ret_x_dl.json")
        permno == load_array(fs, "permno.json")
        date == load_array(fs, "dates.json")
    IN  IF ~ret_x_dl.ok \/ ~permno.ok \/ ~date.ok
        THEN [pc |-> "Err", kept |-> <<>>]
        ELSE filter_delisting_data(crsp_msedelist, permno.array, date.array)

(***************************************************************************)
(* get_wrds_table.  reply is the database's answer to the query: an error, *)
(* or a number of rows.  outputs is the set of files the call created.     *)
(***************************************************************************)
LibNames == {"CRSP", "comp"}

MemNames == {"MSF", "msedelist"}

\* str::to_lowercase on the names above.
to_lowercase(name) ==
    IF name = "CRSP" THEN "crsp" ELSE IF name = "MSF" THEN "msf" ELSE name

\* A download that writes the file whatever the number of rows.
get_wrds_table_unchecked(libname, memname, custom_query, output_format, reply) ==
    LET table_name == libname \o "." \o memname
        query == IF custom_query = Null THEN "SELECT * FROM " \o table_name
                 ELSE custom_query[1]
        output_file == to_lowercase(libname) \o "_" \o to_lowercase(memname)
                           \o "." \o output_format
    IN  IF ~reply.ok
        THEN [ok |-> FALSE, query |-> query, outputs |-> {}, err |-> "query failed"]
        ELSE IF output_format \in {"csv", "parquet"}
        THEN [ok |-> TRUE, query |-> query, outputs |-> {output_file}, err |-> ""]
        ELSE [ok |-> FALSE, query |-> query, outputs |-> {},
              err |-> "Unsupported output format: " \o output_format]

get_wrds_table(libname, memname, custom_query, output_format, reply) ==
    LET table_name == libname \o "." \o memname
        query == IF custom_query = Null THEN "SELECT * FROM " \o table_name
                 ELSE custom_query[1]
        output_file == to_lowercase(libname) \o "_" \o to_lowercase(memname)
                           \o "." \o output_format
    IN  IF ~reply.ok
        THEN [ok |-> FALSE, query |-> query, outputs |-> {}, err |-> "query failed"]
        ELSE IF reply.rows = 0
        THEN [ok |-> FALSE, query |-> query, outputs |-> {},
              err |-> "No data found for table: " \o table_name]
        ELSE IF output_format \in {"csv", "parquet"}
        THEN [ok |-> TRUE, query |-> query, outputs |-> {output_file}, err |-> ""]
        ELSE [ok |-> FALSE, query |-> query, outputs |-> {},
              err |-> "Unsupported output format: " \o output_format]

(***************************************************************************)
(* Inputs of the scenarios.                                                *)
(***************************************************************************)
Permnos == {1, 2}

\* Two dates of one month and a date of the month (and year) before.
ObsDates == {<<1999, 12, 31>>, <<2000, 1, 15>>, <<2000, 1, 31>>}

\* A membership window around every observation date, and one whose two
\* ends are observation dates.
WideWindow == [namedt |-> <<1999, 11, 30>>, nameendt |-> <<2000, 3, 31>>]

TightWindow == [namedt |-> <<1999, 12, 31>>, nameendt |-> <<2000, 1, 31>>]

Windows == {WideWindow, TightWindow}

ShareCodes == {10, 11, 20}

Memb(shrcd) == [c \in MembCols |->
                   IF c = "shrcd" THEN Some(shrcd)
                   ELSE IF c = "exchcd" THEN Some(1) ELSE Some(6021)]

MembRecords ==
    {[permno |-> n, namedt |-> w.namedt, nameendt |-> w.nameendt, memb |-> Memb(sc)] :
        n \in Permnos, w \in Windows, sc \in ShareCodes}

\* Every measured column of a row null, or every one of them 5.
CellProfiles == {[c \in MsfCols |-> Null], [c \in MsfCols |-> Some(5)]}

PivotRows ==
    {[permno |-> n, date |-> d, cols |-> cs] :
        n \in Permnos, d \in ObsDates, cs \in CellProfiles}

PanelRows ==
    {[permno |-> n, date |-> d, cols |-> [c \in MsfCols |-> Some(5)]] :
        n \in Permnos, d \in ObsDates}

\* Both entities are domestic common equity over the wide window.
FullMembership ==
    << [permno |-> 1, namedt |-> WideWindow.namedt, nameendt |-> WideWindow.nameendt,
        memb |-> Memb(10)],
       [permno |-> 2, namedt |-> WideWindow.namedt, nameendt |-> WideWindow.nameendt,
        memb |-> Memb(11)] >>

RECURSIVE SetToSeq(_)
SetToSeq(S) == IF S = {} THEN <<>>
               ELSE LET x == CHOOSE x \in S : TRUE IN <<x>> \o SetToSeq(S \ {x})

MembTables == {SetToSeq(S) : S \in {T \in SUBSET MembRecords : Cardinality(T) <= MaxMemb}}

WideSample == [sample_start |-> <<1999, 1, 1>>, sample_end |-> <<2001, 12, 31>>]

\* A sample whose two ends are observation dates.
TightSample == [sample_start |-> <<2000, 1, 15>>, sample_end |-> <<2000, 1, 31>>]

Params(sample, flag) ==
    [sample_start |-> sample.sample_start, sample_end |-> sample.sample_end,
     dom_com_eq_flag |-> flag]

\* The column types of the joined frame, as the parquet files declare them.
BaseSchema ==
    [v \in VarSet |->
        IF v \in {"shrcd", "exchcd"} THEN "Int16"
        ELSE IF v = "siccd" THEN "Int32" ELSE "Float64"]

\* The base schema, or the base schema with one column held as text.
Schemas ==
    {BaseSchema} \cup
    {[BaseSchema EXCEPT ![v] = "String"] : v \in {"shrcd", "bidlo", "retx"}}

\* Monthly stock files of the runs that the derived stage follows.
PipelinePanels ==
    LET row(n, d) == [permno |-> n, date |-> d, cols |-> [c \in MsfCols |-> Some(5)]]
    IN  { <<>>,
          <<row(1, <<1999, 12, 31>>)>>,
          <<row(1, <<2000, 1, 15>>)>>,
          <<row(1, <<2000, 1, 15>>), row(2, <<1999, 12, 31>>)>> }

\* Entity 3 is in no monthly stock file.
DelistPermnos == {1, 3}

\* The dlstdt that the source system gives a security that has not delisted:
\* the last date of the data.
Sentinel == <<2024, 12, 31>>

\* A delisting in December 1999, in January 2000 and in February 2000.
DelistDates == {<<1999, 12, 15>>, <<2000, 1, 20>>, <<2000, 2, 10>>}

DelistRows ==
    {[permno |-> n, dlstdt |-> d] : n \in DelistPermnos, d \in DelistDates \cup {Sentinel}}

\* Entity 2 has not delisted, so every table holds the sentinel date.
DelistTables ==
    {Append(t, [permno |-> 2, dlstdt |-> Sentinel]) : t \in SeqsUpTo(DelistRows, MaxDelist)}

\* An array written and read back: kind gives each cell as 0, as 5 or as a
\* float that is not finite.
RoundTripArray(nrows, ncols, kind) ==
    [dim |-> <<nrows, ncols>>,
     data |-> [i \in 1..(nrows * ncols) |-> IF kind[i] = 2 THEN 0 ELSE 5 * kind[i]],
     nan |-> {i \in 1..(nrows * ncols) : kind[i] = 2}]

CustomQueries ==
    {Null, Some("SELECT permno FROM crsp.msf"), Some("SELECT * FROM crsp.msf WHERE FALSE")}

OutputFormats == {"csv", "parquet", "json"}

Replies ==
    {[ok |-> FALSE, rows |-> 0]} \cup {[ok |-> TRUE, rows |-> n] : n \in 0..MaxRows}

(***************************************************************************)
(* State: the two parquet files and their schema, the parameters, the      *)
(* directory of JSON files, the outcome of the run and the step of it that *)
(* the environment makes fail (fault, "none" when every step succeeds);    *)
(* the delisting table and the outcome of the derived stage; an array and  *)
(* what is read back of it; a download and its outcome.                    *)
(***************************************************************************)
VARIABLES msf, exch, schema, params, pc, result, files, error, fault,
          delist, derived, rt, wrds

vars == <<msf, exch, schema, params, pc, result, files, error, fault,
          delist, derived, rt, wrds>>

NoError == [err |-> "", at |-> ""]

NoDerived == [pc |-> "start", kept |-> <<>>]

NoRoundTrip == [pc |-> "off", name |-> "", array |-> NoArray,
                loaded |-> [ok |-> FALSE, array |-> NoArray]]

NoDownload ==
    [pc |-> "off", libname |-> "", memname |-> "", custom_query |-> Null,
     output_format |-> "", reply |-> [ok |-> FALSE, rows |-> 0],
     query |-> "", outputs |-> {}, err |-> ""]

InitPivot ==
    /\ msf \in SeqsUpTo(PivotRows, MaxObs)
    /\ exch = FullMembership
    /\ schema \in Schemas
    /\ params = Params(WideSample, TRUE)
    /\ fault = "none"

InitPanel ==
    /\ msf \in SeqsUpTo(PanelRows, MaxPanelObs)
    /\ exch \in MembTables
    /\ schema = BaseSchema
    /\ params \in {Params(s, f) : s \in {WideSample, TightSample}, f \in BOOLEAN}
    /\ fault = "none"

\* The runs in which a step fails.
InitFault ==
    /\ msf \in SeqsUpTo(PivotRows, MaxObs)
    /\ exch = FullMembership
    /\ schema = BaseSchema
    /\ params = Params(WideSample, TRUE)
    /\ fault \in Faults \ {"none"}

\* Nothing has run and the directory is empty.
InitRun ==
    /\ pc = "start"
    /\ result = <<>>
    /\ files = EmptyDir
    /\ error = NoError
    /\ derived = NoDerived

Init ==
    /\ InitPivot \/ InitPanel \/ InitFault
    /\ InitRun
    /\ delist = <<>>
    /\ rt = NoRoundTrip
    /\ wrds = NoDownload

\* make_crsp_monthly_data(&params)
MakeCrspMonthlyData ==
    /\ pc = "start"
    /\ \E pivot_empty_fails \in BOOLEAN :
          \E run \in {run_monthly(msf, exch, params, schema, files, pivot_empty_fails,
                                  fault)} :
              /\ result' = run.result
              /\ files' = run.fs
              /\ error' = [err |-> run.err, at |-> run.at]
              /\ pc' = IF run.ok THEN "Ok" ELSE "Err"
    /\ UNCHANGED <<msf, exch, schema, params, fault, delist, derived, rt, wrds>>

Next == MakeCrspMonthlyData

Spec == Init /\ [][Next]_vars

(***************************************************************************)
(* The pipeline: make_crsp_monthly_data, then make_crsp_derived_variables  *)
(* on the directory it leaves.                                             *)
(***************************************************************************)
InitPipeline ==
    /\ msf \in PipelinePanels
    /\ exch = FullMembership
    /\ schema = BaseSchema
    /\ params = Params(WideSample, TRUE)
    /\ fault \in Faults
    /\ InitRun
    /\ delist \in DelistTables
    /\ rt = NoRoundTrip
    /\ wrds = NoDownload

\* make_crsp_derived_variables(&params)
MakeCrspDerivedVariables ==
    /\ pc # "start"
    /\ derived.pc = "start"
    /\ derived' = make_crsp_derived_variables(files, delist)
    /\ UNCHANGED <<msf, exch, schema, params, pc, result, files, error, fault,
                   delist, rt, wrds>>

NextPipeline == MakeCrspMonthlyData \/ MakeCrspDerivedVariables

SpecPipeline == InitPipeline /\ [][NextPipeline]_vars

(***************************************************************************)
(* An array written by save_ndarray_as_json and read back by load_array.   *)
(***************************************************************************)
InitRoundTrip ==
    /\ msf = <<>>
    /\ exch = <<>>
    /\ schema = BaseSchema
    /\ params = Params(WideSample, FALSE)
    /\ fault = "none"
    /\ InitRun
    /\ delist = <<>>
    /\ \E n \in {"permno.json", "ret_x_dl.json"}, r \in 0..MaxDim, c \in 0..MaxDim :
          \E kind \in [1..(r * c) -> 0..2] :
             rt = [NoRoundTrip EXCEPT !.pc = "start", !.name = n,
                                      !.array = RoundTripArray(r, c, kind)]
    /\ wrds = NoDownload

\* save_ndarray_as_json(ndarray, dir, filename)
SaveNdarrayAsJson ==
    /\ rt.pc = "start"
    /\ files' = save_ndarray_as_json(files, rt.array, rt.name)
    /\ rt' = [rt EXCEPT !.pc = "saved"]
    /\ UNCHANGED <<msf, exch, schema, params, pc, result, error, fault,
                   delist, derived, wrds>>

\* load_array(dir, filename)
LoadArray ==
    /\ rt.pc = "saved"
    /\ rt' = [rt EXCEPT !.pc = "loaded", !.loaded = load_array(files, rt.name)]
    /\ UNCHANGED <<msf, exch, schema, params, pc, result, files, error, fault,
                   delist, derived, wrds>>

NextRoundTrip == SaveNdarrayAsJson \/ LoadArray

SpecRoundTrip == InitRoundTrip /\ [][NextRoundTrip]_vars

(***************************************************************************)
(* One download.                                                           *)
(***************************************************************************)
InitDownload ==
    /\ msf = <<>>
    /\ exch = <<>>
    /\ schema = BaseSchema
    /\ params = Params(WideSample, FALSE)
    /\ fault = "none"
    /\ InitRun
    /\ delist = <<>>
    /\ rt = NoRoundTrip
    /\ wrds \in {[NoDownload EXCEPT !.pc = "start", !.libname = l, !.memname = m,
                                    !.custom_query = q, !.output_format = o,
                                    !.reply = r] :
                    l \in LibNames, m \in MemNames, q \in CustomQueries,
                    o \in OutputFormats, r \in Replies}

\* get_wrds_table(client, libname, memname, dir_path, custom_query, output_format)
GetWrdsTable ==
    /\ wrds.pc = "start"
    /\ \E call \in {get_wrds_table(wrds.libname, wrds.memname, wrds.custom_query,
                                   wrds.output_format, wrds.reply)} :
          wrds' = [wrds EXCEPT !.pc = IF call.ok THEN "Ok" ELSE "Err",
                               !.query = call.query,
                               !.outputs = call.outputs,
                               !.err = call.err]
    /\ UNCHANGED <<msf, exch, schema, params, pc, result, files, error, fault,
                   delist, derived, rt>>

NextDownload == GetWrdsTable

SpecDownload == InitDownload /\ [][NextDownload]_vars

(***************************************************************************)
(* Properties of the Assembled Panel.                                      *)
(***************************************************************************)
\* The run has returned.
Returned == pc # "start"

\* The run has returned and no read or write failed in it.
Ran == Returned /\ fault = "none"

InSample(d) == ~DateLt(d, params.sample_start) /\ ~DateLt(params.sample_end, d)

SampleBound ==
    /\ \A i \in 1..Len(result) : InSample(result[i].date)
    /\ Ran =>
         \A i \in 1..Len(msf), j \in 1..Len(exch) :
            ( /\ msf[i].permno = exch[j].permno
              /\ DateLt(exch[j].namedt, msf[i].date)
              /\ DateLt(msf[i].date, exch[j].nameendt)
              /\ InSample(msf[i].date)
              /\ params.dom_com_eq_flag => exch[j].memb["shrcd"] \in {Some(10), Some(11)} )
            => \E k \in 1..Len(result) : result[k] = JoinRow(msf[i], exch[j])

\* A panel with a row dated exactly sample_start.
SampleBoundWitness ==
    /\ Ran
    /\ \E k \in 1..Len(result) : result[k].date = params.sample_start

Observation(row) == [permno |-> row.permno, date |-> row.date, cols |-> row.cols]

Count(s, P(_)) == Cardinality({i \in 1..Len(s) : P(s[i])})

\* C3: no observation row appears more often in the Assembled Panel than in
\* the monthly stock file, whatever the membership table.
OneMembershipPerRow ==
    \A i \in 1..Len(msf) :
        Count(result, LAMBDA row : Observation(row) = msf[i])
            <= Count(msf, LAMBDA m : m = msf[i])

(***************************************************************************)
(* Properties of the persisted axes and matrices.                          *)
(***************************************************************************)
File(name) == files.content[name]

Persisted(name) == File(name) # NoFile

\* Cell (i, j) of a persisted array.
At(a, i, j) == a.data[(i - 1) * a.dim[2] + j]

FirstIndex(s, P(_)) == CHOOSE i \in 1..Len(s) : P(s[i]) /\ \A k \in 1..(i - 1) : ~P(s[k])

YearMonth(d) == 100 * d[1] + d[2]

\* C4: every persisted variable matrix has shape (entries of permno.json,
\* entries of dates.json).
ShapeInvariant ==
    \A v \in VarSet :
        Persisted(file_name(v)) =>
            File(file_name(v)).dim = <<File("permno.json").dim[1], File("dates.json").dim[1]>>

\* C5: in every persisted variable matrix the value of a panel row stands in
\* the row of its entity's position in permno.json and the column of its
\* period's position in dates.json.
AxisAlignment ==
    \A v \in VarSet, k \in 1..Len(result) :
        (Persisted(file_name(v)) /\ cell(rename(result)[k], v) # Null) =>
            LET m == File(file_name(v))
                i == FirstIndex(File("permno.json").data, LAMBDA e : e = result[k].permno)
                j == FirstIndex(File("dates.json").data,
                                LAMBDA t : t = YearMonth(result[k].date))
            IN  /\ i <= m.dim[1]
                /\ j <= m.dim[2]
                /\ At(m, i, j) = cell(rename(result)[k], v)[1]

NoDuplicates(s) == \A i, j \in 1..Len(s) : s[i] = s[j] => i = j

\* Values appear in the axis in the order in which they first appear in the panel.
FirstAppearanceOrder(axis, column) ==
    \A i, j \in 1..Len(axis) :
        i < j => FirstIndex(column, LAMBDA x : x = axis[i])
                    < FirstIndex(column, LAMBDA x : x = axis[j])

Ascending(axis) == \A i, j \in 1..Len(axis) : i < j => axis[i] < axis[j]

PanelPermnos == Column(result, LAMBDA row : row.permno)

PanelPeriods == Column(result, LAMBDA row : YearMonth(row.date))

IsAxisOf(a, column) ==
    /\ a.dim = <<Len(a.data), 1>>
    /\ NoDuplicates(a.data)
    /\ Range(a.data) = Range(column)

PanelDates == Column(result, LAMBDA row : row.date)

\* The date of the r-th row of a pivoted matrix: the r-th distinct date of the
\* panel, counting in order of first appearance.
RowDate(r) ==
    CHOOSE d \in Range(PanelDates) :
        Cardinality({e \in Range(PanelDates) :
                        FirstIndex(PanelDates, LAMBDA x : x = e)
                            < FirstIndex(PanelDates, LAMBDA x : x = d)}) = r - 1

HasRow(permno, date) ==
    \E k \in 1..Len(result) : result[k].permno = permno /\ result[k].date = date

\* C8: every cell of a persisted variable matrix is a number, and a cell whose
\* entity and date have no row in the panel is zero.
FillPolicy ==
    \A v \in VarSet :
        Persisted(file_name(v)) =>
            LET m == File(file_name(v))
            IN  \A r \in 1..m.dim[1], c \in 1..m.dim[2] :
                    /\ At(m, r, c) \in Int
                    /\ ~HasRow(File("permno.json").data[c], RowDate(r)) => At(m, r, c) = 0

\* A persisted matrix with a cell whose entity and date have no row.
FillPolicyWitness ==
    \E v \in VarSet :
        /\ Persisted(file_name(v))
        /\ \E r \in 1..File(file_name(v)).dim[1], c \in 1..File(file_name(v)).dim[2] :
              ~HasRow(File("permno.json").data[c], RowDate(r))

\* The pivot has one row per (entity, date) pair to place, and at least one.
Pivotable ==
    /\ result # <<>>
    /\ \A i, j \in 1..Len(result) :
          (result[i].permno = result[j].permno /\ result[i].date = result[j].date) => i = j

\* C9: a variable whose column type is unsupported is skipped, and the run
\* still persists a matrix for every other variable.
UnsupportedTypeNonFatal ==
    (Ran /\ Pivotable) =>
        \A v \in VarSet :
            IF schema[v] \in SupportedTypes
            THEN Persisted(file_name(v))
            ELSE ~Persisted(file_name(v))

\* C10: a run whose panel has no rows ends in an error and persists nothing.
EmptyResultFatal ==
    (Ran /\ result = <<>>) => (pc = "Err" /\ files.log = <<>>)

(***************************************************************************)
(* The share-code filter and the observations without a membership.        *)
(***************************************************************************)
\* The membership record is one of the entity and its window holds the date
\* strictly inside.
Contains(m, obs) ==
    /\ m.permno = obs.permno
    /\ DateLt(m.namedt, obs.date)
    /\ DateLt(obs.date, m.nameendt)

\* C11: when dom_com_eq_flag is true every row of the Assembled Panel has
\* shrcd 10 or 11; when it is false every joined row that passes the window
\* and sample filters is in the panel, whatever its shrcd.
CategoryFilter ==
    /\ params.dom_com_eq_flag =>
          \A k \in 1..Len(result) : result[k].memb["shrcd"] \in {Some(10), Some(11)}
    /\ (Ran /\ ~params.dom_com_eq_flag) =>
          \A i \in 1..Len(msf), j \in 1..Len(exch) :
             (Contains(exch[j], msf[i]) /\ InSample(msf[i].date))
                => \E k \in 1..Len(result) : result[k] = JoinRow(msf[i], exch[j])

\* A run with the flag set whose panel has a row, while a membership of
\* shrcd 20 holds an observation of the sample in its window.
CategoryFilterWitness ==
    /\ Ran
    /\ params.dom_com_eq_flag
    /\ result # <<>>
    /\ \E i \in 1..Len(msf), j \in 1..Len(exch) :
          /\ Contains(exch[j], msf[i])
          /\ InSample(msf[i].date)
          /\ exch[j].memb["shrcd"] = Some(20)

\* C12: an observation that no membership record of its entity holds
\* strictly inside its window, or whose entity has no membership record at
\* all, is the observation of no row of the Assembled Panel.
NoMembershipDropped ==
    \A i \in 1..Len(msf) :
        (\A j \in 1..Len(exch) : ~Contains(exch[j], msf[i]))
            => \A k \in 1..Len(result) : Observation(result[k]) # msf[i]

\* A run without the share-code filter, over a membership table that has
\* records, with an observation of the sample whose entity has none.
NoMembershipWitness ==
    /\ Ran
    /\ ~params.dom_com_eq_flag
    /\ exch # <<>>
    /\ \E i \in 1..Len(msf) :
          /\ InSample(msf[i].date)
          /\ \A j \in 1..Len(exch) : exch[j].permno # msf[i].permno

(***************************************************************************)
(* The delisting events of the derived stage.                              *)
(***************************************************************************)
\* The derived stage has read the three arrays and filtered the events.
Filtered == derived.pc = "Ok"

Event(row) == [permno |-> row.permno, dlstdt |-> row.dlstdt]

\* C13: filter_delisting_data keeps exactly the events whose entity is in
\* permno.json, whose month is at most the largest entry of dates.json, the
\* last month of the axis included, and whose date is not the sentinel.
DelistingFilter ==
    Filtered =>
        [i \in 1..Len(derived.kept) |-> Event(derived.kept[i])]
            = SelectSeq(delist,
                        LAMBDA r : /\ r.permno \in Range(File("permno.json").data)
                                   /\ YearMonth(r.dlstdt) <= IntMax(File("dates.json").data)
                                   /\ r.dlstdt # Sentinel)

\* C14: when a delisting event names an entity that is not in permno.json, or
\* a month that is not in dates.json, the derived stage ends in an error.
AxisMismatchRaised ==
    ( /\ derived.pc # "start"
      /\ Persisted("ret_x_dl.json")
      /\ File("dates.json").data # <<>>
      /\ \E i \in 1..Len(delist) :
            /\ delist[i].dlstdt # Sentinel
            /\ \/ delist[i].permno \notin Range(File("permno.json").data)
               \/ YearMonth(delist[i].dlstdt) \notin Range(File("dates.json").data) )
    => derived.pc = "Err"

(***************************************************************************)
(* Duplicate rows, the round trip through JSON, and the files of a run.    *)
(***************************************************************************)
SameCell(a, b) == a.permno = b.permno /\ a.date = b.date

\* C15: when the panel holds two rows of one entity and one date, every
\* variable still gets its matrix, and the cell of that entity and date
\* holds the value of one of the rows (0 for a null).
DuplicateResolved ==
    (Ran /\ \E i, j \in 1..Len(result) : i # j /\ SameCell(result[i], result[j])) =>
        \A v \in VarSet :
            schema[v] \in SupportedTypes =>
                /\ Persisted(file_name(v))
                /\ \A i \in 1..Len(result) :
                      LET m == File(file_name(v))
                          r == FirstIndex(unique_stable(PanelDates),
                                          LAMBDA d : d = result[i].date)
                          c == FirstIndex(File("permno.json").data,
                                          LAMBDA e : e = result[i].permno)
                      IN  \E k \in 1..Len(result) :
                             /\ SameCell(result[k], result[i])
                             /\ At(m, r, c) = fill_null(cell(rename(result)[k], v))[1]

\* C16: an array written by save_ndarray_as_json and read back by load_array
\* is read without error, with the shape and the cells that were written.
RoundTrip ==
    rt.pc = "loaded" => (rt.loaded.ok /\ rt.loaded.array = rt.array)

\* C17: no file is written twice in a run: the i-th variable is written to
\* its own file, the files of two variables differ, and none is permno.json,
\* dates.json or crsp_link.json.
DisjointOutputs ==
    /\ NoDuplicates(files.log)
    /\ \A k \in 4..Len(files.log) : files.log[k] = file_name(var_names[k - 3])
    /\ \A i, j \in 1..Len(var_names) :
          i # j => file_name(var_names[i]) # file_name(var_names[j])
    /\ \A v \in VarSet : file_name(v) \notin AxisFiles \cup {"crsp_link.json"}

\* A run that has written the axes, the link file and every variable.
DisjointOutputsWitness ==
    /\ pc = "Ok"
    /\ Len(files.log) = 3 + Len(var_names)

\* C18: a download whose query returns no row ends in the error "No data
\* found for table" and creates no file.
NoRowsReturned ==
    (wrds.pc \in {"Ok", "Err"} /\ wrds.reply.ok /\ wrds.reply.rows = 0) =>
        /\ wrds.pc = "Err"
        /\ wrds.err = "No data found for table: " \o wrds.libname \o "." \o wrds.memname
        /\ wrds.outputs = {}

\* A download in a supported format whose query was answered with no row.
NoRowsReturnedWitness ==
    /\ wrds.pc \in {"Ok", "Err"}
    /\ wrds.reply.ok
    /\ wrds.reply.rows = 0
    /\ wrds.output_format \in {"csv", "parquet"}

Writes(name) == Count(files.log, LAMBDA f : f = name)

\* C19: permno.json and dates.json are written at most once each, and exactly
\* once each in a run that gets as far as the link file; every other file is
\* written after both; the derived stage leaves the log of writes as the
\* run left it.
AxisFreeze ==
    /\ \A a \in AxisFiles : Writes(a) <= 1
    /\ (Returned /\ fault \in {"none", "crsp_link.json"}) =>
          \A a \in AxisFiles : Writes(a) = 1
    /\ \A k \in 1..Len(files.log) :
          files.log[k] \notin AxisFiles =>
              \A a \in AxisFiles : \E j \in 1..(k - 1) : files.log[j] = a

\* The derived stage has run on a directory that holds a variable matrix.
AxisFreezeWitness ==
    /\ derived.pc = "Ok"
    /\ Persisted("ret_x_dl.json")
    /\ Persisted("retx.json")

StructuralFaults == InputFiles \cup {"collect"} \cup AxisFiles

\* C20: a run in which a parquet file cannot be loaded, the collect fails or
\* an axis cannot be written returns that error, writes nothing after it and
\* persists no variable matrix.
StructuralErrorsAbort ==
    (Returned /\ fault \in StructuralFaults) =>
        /\ pc = "Err"
        /\ error.at = fault
        /\ \A v \in VarSet : ~Persisted(file_name(v))
        /\ files.log = IF fault = "dates.json" THEN <<"permno.json">> ELSE <<>>

\* A run whose panel has a row and in which dates.json cannot be written.
StructuralErrorsWitness ==
    /\ Returned
    /\ fault = "dates.json"
    /\ result # <<>>

(***************************************************************************)
(* Null observations.                                                      *)
(***************************************************************************)
\* The row and the column of a panel row's cell in a pivoted matrix: the
\* place of its date among the distinct dates and of its entity in
\* permno.json.
CellRow(k) == FirstIndex(unique_stable(PanelDates), LAMBDA d : d = result[k].date)

CellCol(k) == FirstIndex(File("permno.json").data, LAMBDA e : e = result[k].permno)

\* C21: in every persisted variable matrix the cell of a panel row whose
\* value of the variable is null holds zero, the value that the cell of an
\* entity and date without a row holds.
NullAsZero ==
    \A v \in VarSet :
        Persisted(file_name(v)) =>
            LET m == File(file_name(v))
            IN  /\ \A k \in 1..Len(result) :
                      cell(rename(result)[k], v) = Null => At(m, CellRow(k), CellCol(k)) = 0
                /\ \A r \in 1..m.dim[1], c \in 1..m.dim[2] :
                      ~HasRow(File("permno.json").data[c], RowDate(r)) => At(m, r, c) = 0

\* A persisted matrix with the cell of a row whose value is null and the cell
\* of an entity and date without a row: two zeros, one with an observation
\* behind it and one without.
NullAsZeroWitness ==
    \E v \in VarSet :
        /\ Persisted(file_name(v))
        /\ \E k \in 1..Len(result) :
              /\ cell(rename(result)[k], v) = Null
              /\ At(File(file_name(v)), CellRow(k), CellCol(k)) = 0
        /\ \E r \in 1..File(file_name(v)).dim[1], c \in 1..File(file_name(v)).dim[2] :
              /\ ~HasRow(File("permno.json").data[c], RowDate(r))
              /\ At(File(file_name(v)), r, c) = 0

====
